---- MODULE Spec2Model ----
(***************************************************************************)
(* Model of the die converters of exercise4/dice.py: DiePerfect (the       *)
(* enumeration source), Die (the random source), DieTester (the tally),    *)
(* DieDivider, DiePower and DieCombo.                                      *)
(***************************************************************************)
EXTENDS Integers, Sequences, FiniteSets, TLC

(* ------------------------------ bounds --------------------------------- *)
MaxNegSides == 2        \* target side counts are tried down to -MaxNegSides
MaxSides == 6           \* largest target side count tried
MaxSrcSides == 6        \* largest source side count tried
MaxSrcDice == 3         \* largest num_dice of a DiePerfect source
MaxNumDice == 4         \* cap on the constructor's num_dice search
MaxRolls == 26          \* cap on the rolls a DieTester asks for
MaxDraws == 400         \* cap on DiePerfect.num_rolls
MaxAttempts == 40       \* the attempt count of one roll() saturates here

VARIABLES
    kind,         \* which converter class is built: "Divider", "Power", "Combo"
    sides,        \* DieBase._sides of the converter
    srcKind,      \* class of the source: "Perfect" (DiePerfect) or "Random" (Die)
    srcSides,     \* source.sides
    srcNumDice,   \* DiePerfect.num_dice of the source
    srcRolls,     \* DiePerfect.rolls: the list that itertools.cycle repeats
    srcPos,       \* position of the cycle iterator inside srcRolls (0-based)
    srcNumRolls,  \* DiePerfect.num_rolls
    num_dice,     \* DiePower.num_dice / DieCombo.num_dice
    divider,      \* DieCombo.divider
    pc,           \* "new": converter not built yet; "search": inside the
                  \* constructor's num_dice loop; "ready": built, no roll()
                  \* in progress; "rolling": inside roll(), last batch was
                  \* rejected; "error": the constructor raised its Exception;
                  \* "zerodiv": the constructor raised ZeroDivisionError;
                  \* "raised": roll() (or the tally) raised
    rolls,        \* the batch drawn by the last attempt of roll()
    result,       \* <<v>> for the value v returned by the last roll(), else <<>>
    tally,        \* DieTester.rolls
    attempts,     \* iterations of the while True loop run by the current (or
                  \* last) roll() call, saturating at MaxAttempts
    callStart     \* DiePerfect.num_rolls when the current (or last) roll()
                  \* call was entered

vars == <<kind, sides, srcKind, srcSides, srcNumDice, srcRolls, srcPos,
          srcNumRolls, num_dice, divider, pc, rolls, result, tally,
          attempts, callStart>>

(* --------------------------- Python arithmetic ------------------------- *)
\* pow(b, e) for e >= 0; pow(0, 0) = 1
RECURSIVE pow(_, _)
pow(b, e) == IF e = 0 THEN 1 ELSE b * pow(b, e - 1)

\* a // b of Python (floor division), b # 0
FloorDiv(a, b) ==
    IF b > 0
      THEN IF a >= 0 THEN a \div b ELSE -(((-a) + b - 1) \div b)
      ELSE IF a <= 0 THEN (-a) \div (-b) ELSE -((a + (-b) - 1) \div (-b))

\* a % b of Python (sign of the divisor), b # 0
PyMod(a, b) == a - b * FloorDiv(a, b)

\* math.ceil(a / b) under true division, b # 0
CeilDiv(a, b) == -FloorDiv(-a, b)

\* sum of a sequence of integers
RECURSIVE SumSeq(_)
SumSeq(s) == IF s = <<>> THEN 0 ELSE Head(s) + SumSeq(Tail(s))

(* ------------------------------ DiePerfect ----------------------------- *)
\* DiePerfect.__each(current, ranges): ranges is nRanges copies of 1..s
RECURSIVE Each(_, _, _)
RECURSIVE EachLoop(_, _, _, _)
EachLoop(current, nRanges, s, i) ==
    IF i > s THEN <<>>
    ELSE Each(Append(current, i), nRanges - 1, s) \o EachLoop(current, nRanges, s, i + 1)
Each(current, nRanges, s) ==
    IF nRanges = 0 THEN current ELSE EachLoop(current, nRanges, s, 1)

\* DiePerfect.__init__: the list handed to itertools.cycle
PerfectRolls(s, n) == Each(<<>>, n, s)

\* can the source produce a draw?  Die: random.randint(1, sides) needs
\* sides >= 1; DiePerfect: next() of a cycle over an empty list raises.
SourceCanRoll ==
    IF srcKind = "Perfect" THEN Len(srcRolls) > 0 ELSE srcSides >= 1

\* mutant: the cycle iterator skips the element it stands on
PerfectBatch_Skips(count) ==
    [i \in 1..count |-> srcRolls[((srcPos + i) % Len(srcRolls)) + 1]]

\* the count values DiePerfect hands out next, by DieBase.__call__(count)
PerfectBatch(count) ==
    [i \in 1..count |-> srcRolls[((srcPos + i - 1) % Len(srcRolls)) + 1]]

\* every batch a source can hand out for DieBase.__call__(count)
Batches(count) ==
    IF srcKind = "Perfect" THEN {PerfectBatch(count)}
    ELSE [1..count -> 1..srcSides]

(* ------------------------------ DieTester ------------------------------ *)
\* DieTester.__init__: rolls = {i: 0 for i in range(1, sides + 1)}
TesterInit(s) == [i \in 1..s |-> 0]

\* DieTester.num_rolls
RECURSIVE SumTally(_, _)
SumTally(t, i) == IF i = 0 THEN 0 ELSE t[i] + SumTally(t, i - 1)
TesterNumRolls == SumTally(tally, Cardinality(DOMAIN tally))

(* ------------------------------- Init ---------------------------------- *)
Kinds == {"Divider", "Power", "Combo"}

Init ==
    /\ kind \in Kinds
    /\ sides \in (-MaxNegSides)..MaxSides
    /\ srcKind \in {"Perfect", "Random"}
    /\ srcSides \in 0..MaxSrcSides
    /\ srcNumDice \in 0..MaxSrcDice
    /\ srcKind = "Random" => srcNumDice = 1
    /\ srcRolls = IF srcKind = "Perfect" THEN PerfectRolls(srcSides, srcNumDice) ELSE <<>>
    /\ srcPos = 0
    /\ srcNumRolls = 0
    /\ num_dice = 0
    /\ divider = 0
    /\ pc = "new"
    /\ rolls = <<>>
    /\ result = <<>>
    /\ tally = TesterInit(sides)
    /\ attempts = 0
    /\ callStart = 0

cfgVars == <<kind, sides, srcKind, srcSides, srcNumDice, srcRolls>>
callVars == <<attempts, callStart>>

(* ----------------------------- the source ------------------------------ *)
\* mutant: a whole batch is counted as one roll
SourceAdvance_OnePerBatch(count) ==
    IF srcKind = "Perfect" /\ count > 0
      THEN /\ srcNumRolls' = srcNumRolls + 1
           /\ srcPos' = (srcPos + count) % Len(srcRolls)
      ELSE UNCHANGED <<srcNumRolls, srcPos>>

\* effect of count successful source.roll() calls on the source's own state
SourceAdvance(count) ==
    IF srcKind = "Perfect" /\ count > 0
      THEN /\ srcNumRolls' = srcNumRolls + count
           /\ srcPos' = (srcPos + count) % Len(srcRolls)
      ELSE UNCHANGED <<srcNumRolls, srcPos>>

\* source.roll() raising on its first draw: DiePerfect.roll has already
\* counted the draw when next() raises; Die.roll has no state
SourceRaise ==
    /\ srcNumRolls' = IF srcKind = "Perfect" THEN srcNumRolls + 1 ELSE srcNumRolls
    /\ UNCHANGED srcPos
    /\ pc' = "raised"

\* DieTester.__call__: self.rolls[roll] += 1 (KeyError for an unknown face).
\* The tally exists where the repository builds one: over a DiePerfect source.
Deliver(v) ==
    /\ result' = <<v>>
    /\ IF srcKind = "Perfect"
         THEN IF v \in DOMAIN tally
                THEN /\ tally' = [tally EXCEPT ![v] = @ + 1]
                     /\ pc' = "ready"
                ELSE /\ pc' = "raised"
                     /\ UNCHANGED tally
         ELSE /\ pc' = "ready"
              /\ UNCHANGED tally

\* entering roll() starts the first iteration of its loop; a rejected batch
\* starts the next one
EnterOrRetry ==
    /\ attempts' = IF pc = "ready" THEN 1
                   ELSE IF attempts < MaxAttempts THEN attempts + 1 ELSE attempts
    /\ callStart' = IF pc = "ready" THEN srcNumRolls ELSE callStart

\* a new roll() may start: the tester asks for at most MaxRolls rolls
MayStartRoll == srcKind = "Perfect" => TesterNumRolls < MaxRolls

\* the draw counter stays within its cap
MayDraw(count) == srcKind = "Perfect" => srcNumRolls + count <= MaxDraws

(* ----------------------------- DieDivider ------------------------------ *)
\* mutant: rejects only a source smaller than the target
DividerRejects_Smaller(s, src) == src < s

\* the test of DieDivider.__init__: source.sides % sides != 0 (sides # 0)
DividerRejects(s, src) == PyMod(src, s) # 0

\* DieDivider.__init__
DieDividerInit ==
    /\ pc = "new" /\ kind = "Divider"
    /\ pc' = IF sides = 0 THEN "zerodiv"
             ELSE IF DividerRejects(sides, srcSides) THEN "error"
             ELSE "ready"
    /\ UNCHANGED <<cfgVars, srcPos, srcNumRolls, num_dice, divider, rolls, result, tally, callVars>>

\* mutant: floor + 1 in place of the ceiling
DividerValue_FloorPlusOne(r) == FloorDiv(r, FloorDiv(srcSides, sides)) + 1

\* mutant: divides by the target side count, not by the divisor
DividerValue_BySides(r) == CeilDiv(r, sides)

\* the value DieDivider.roll returns for the source draw r
DividerValue(r) == CeilDiv(r, FloorDiv(srcSides, sides))

\* DieDivider.roll
DieDividerRoll ==
    /\ pc = "ready" /\ kind = "Divider"
    /\ MayStartRoll /\ MayDraw(1)
    /\ EnterOrRetry
    /\ IF ~SourceCanRoll
         THEN /\ SourceRaise
              /\ UNCHANGED <<rolls, result, tally>>
         ELSE \E b \in Batches(1) :
                /\ rolls' = b
                /\ SourceAdvance(1)
                /\ IF FloorDiv(srcSides, sides) = 0
                     THEN /\ pc' = "raised"
                          /\ UNCHANGED <<result, tally>>
                     ELSE Deliver(DividerValue(b[1]))
    /\ UNCHANGED <<cfgVars, num_dice, divider>>

(* --------------------- DiePower / DieCombo: __init__ ------------------- *)
\* mutant: the search starts from one die
SearchDone_FromOne(n) == n >= 1 /\ pow(srcSides, n) >= sides

\* mutant: strict comparison in the loop test
SearchDone_Strict(n) == pow(srcSides, n) > sides

\* the loop test of the num_dice search: pow(source.sides, num_dice) >= sides
SearchDone(n) == pow(srcSides, n) >= sides

\* DiePower.__init__ up to the loop
DiePowerInit ==
    /\ pc = "new" /\ kind = "Power"
    /\ num_dice' = 0
    /\ pc' = "search"
    /\ UNCHANGED <<cfgVars, srcPos, srcNumRolls, divider, rolls, result, tally, callVars>>

\* one iteration of the while True loop of DiePower.__init__
DiePowerSearch ==
    /\ pc = "search" /\ kind = "Power"
    /\ IF SearchDone(num_dice)
         THEN /\ pc' = "ready"
              /\ UNCHANGED num_dice
         ELSE /\ num_dice < MaxNumDice
              /\ num_dice' = num_dice + 1
              /\ UNCHANGED pc
    /\ UNCHANGED <<cfgVars, srcPos, srcNumRolls, divider, rolls, result, tally, callVars>>

\* DieCombo.__init__ up to the loop
DieComboInit ==
    /\ pc = "new" /\ kind = "Combo"
    /\ num_dice' = 0
    /\ pc' = "search"
    /\ UNCHANGED <<cfgVars, srcPos, srcNumRolls, divider, rolls, result, tally, callVars>>

\* mutant: divider one too large
ComboDivider_PlusOne(n) == FloorDiv(pow(srcSides, n), sides) + 1

\* self.divider = pow(self.source.sides, self.num_dice) // self.sides
ComboDivider(n) == FloorDiv(pow(srcSides, n), sides)

\* one iteration of the while True loop of DieCombo.__init__; leaving the
\* loop runs the rest of the constructor
DieComboSearch ==
    /\ pc = "search" /\ kind = "Combo"
    /\ IF SearchDone(num_dice)
         THEN /\ IF sides = 0
                   THEN /\ pc' = "zerodiv"
                        /\ UNCHANGED divider
                   ELSE /\ divider' = ComboDivider(num_dice)
                        /\ pc' = "ready"
              /\ UNCHANGED num_dice
         ELSE /\ num_dice < MaxNumDice
              /\ num_dice' = num_dice + 1
              /\ UNCHANGED <<pc, divider>>
    /\ UNCHANGED <<cfgVars, srcPos, srcNumRolls, rolls, result, tally, callVars>>

(* ----------------------- DiePower / DieCombo: roll --------------------- *)
\* mutant: the draws are not shifted to 0-based digits
PowerValue_NoShift(b) ==
    SumSeq([k \in 1..Len(b) |-> pow(srcSides, k - 1) * b[k]]) + 1

\* mutant: the radix is the target's side count
PowerValue_BaseSides(b) ==
    SumSeq([k \in 1..Len(b) |-> pow(sides, k - 1) * (b[k] - 1)]) + 1

\* mutant: the first draw is taken as the most significant digit
PowerValue_MsbFirst(b) ==
    SumSeq([k \in 1..Len(b) |-> pow(srcSides, Len(b) - k) * (b[k] - 1)]) + 1

\* DiePower.roll: sum(pow(S, k) * (v - 1) for (k, v) in enumerate(rolls)) + 1
PowerValue(b) ==
    SumSeq([k \in 1..Len(b) |-> pow(srcSides, k - 1) * (b[k] - 1)]) + 1

\* mutant: the first draw is taken as the least significant digit
ComboRaw_LsbFirst(b) ==
    SumSeq([k \in 1..Len(b) |-> pow(srcSides, k - 1) * (b[k] - 1)])

\* DieCombo.roll: sum(pow(S, num_dice-k-1) * (v - 1) ...) // divider + 1
ComboRaw(b) ==
    SumSeq([k \in 1..Len(b) |-> pow(srcSides, num_dice - k) * (b[k] - 1)])


\* mutant: the quotient is not shifted to 1-based faces
ComboValue_NoPlusOne(b) == FloorDiv(ComboRaw(b), divider)

\* DieCombo.roll: v //= self.divider; v += 1
ComboValue(b) == FloorDiv(ComboRaw(b), divider) + 1

\* mutant: a value equal to the previous result is rejected
Accepts_NoRepeat(v) == ~(v > sides) /\ result # <<v>>

\* mutant: the top face is rejected as well
Accepts_Strict(v) == v < sides

\* mutant: off by one in the rejection test
Accepts_OffByOne(v) == ~(v > sides + 1)

\* the test that ends the while True loop of roll(): not (v > self.sides)
Accepts(v) == ~(v > sides)

\* mutant: a retry adds a die to the batch size
DiePowerRoll_AddsDie ==
    /\ kind = "Power"
    /\ pc \in {"ready", "rolling"}
    /\ num_dice < MaxNumDice
    /\ num_dice' = num_dice + 1
    /\ pc' = "rolling"
    /\ UNCHANGED <<cfgVars, srcPos, srcNumRolls, divider, rolls, result, tally, callVars>>

\* one attempt of DiePower.roll: draw a batch, compose, accept or retry
DiePowerRoll ==
    /\ kind = "Power"
    /\ \/ pc = "ready" /\ MayStartRoll
       \/ pc = "rolling"
    /\ MayDraw(num_dice)
    /\ EnterOrRetry
    /\ IF num_dice > 0 /\ ~SourceCanRoll
         THEN /\ SourceRaise
              /\ UNCHANGED <<rolls, result, tally>>
         ELSE \E b \in Batches(num_dice) :
                /\ rolls' = b
                /\ SourceAdvance(num_dice)
                /\ IF Accepts(PowerValue(b))
                     THEN Deliver(PowerValue(b))
                     ELSE /\ pc' = "rolling"
                          /\ UNCHANGED <<result, tally>>
    /\ UNCHANGED <<cfgVars, num_dice, divider>>

\* one attempt of DieCombo.roll
DieComboRoll ==
    /\ kind = "Combo"
    /\ \/ pc = "ready" /\ MayStartRoll
       \/ pc = "rolling"
    /\ MayDraw(num_dice)
    /\ EnterOrRetry
    /\ IF num_dice > 0 /\ ~SourceCanRoll
         THEN /\ SourceRaise
              /\ UNCHANGED <<rolls, result, tally>>
         ELSE \E b \in Batches(num_dice) :
                /\ rolls' = b
                /\ SourceAdvance(num_dice)
                /\ IF divider = 0
                     THEN /\ pc' = "raised"
                          /\ UNCHANGED <<result, tally>>
                     ELSE IF Accepts(ComboValue(b))
                            THEN Deliver(ComboValue(b))
                            ELSE /\ pc' = "rolling"
                                 /\ UNCHANGED <<result, tally>>
    /\ UNCHANGED <<cfgVars, num_dice, divider>>

(* ------------------------------ the system ----------------------------- *)
Next ==
    \/ DieDividerInit
    \/ DieDividerRoll
    \/ DiePowerInit
    \/ DiePowerSearch
    \/ DiePowerRoll
    \/ DieComboInit
    \/ DieComboSearch
    \/ DieComboRoll

Spec == Init /\ [][Next]_vars

\* an iteration of the loop of roll() that ends in "return v"
AcceptingAttempt == (DiePowerRoll \/ DieComboRoll) /\ pc' = "ready"

\* a Die source (random.randint) keeps producing every batch: the batches
\* that are accepted keep recurring while roll() keeps looping
FairSpec == Spec /\ SF_vars(AcceptingAttempt)

TypeOK ==
    /\ kind \in Kinds
    /\ sides \in (-MaxNegSides)..MaxSides
    /\ pc \in {"new", "search", "ready", "rolling", "error", "zerodiv", "raised"}
    /\ num_dice \in 0..MaxNumDice
    /\ srcNumRolls \in 0..(MaxDraws + 1)
    /\ Len(result) <= 1
    /\ attempts \in 0..MaxAttempts
    /\ callStart \in 0..MaxDraws

(* ======================================================================= *)
(*                              Properties                                 *)
(* ======================================================================= *)
Built == pc \in {"ready", "rolling", "raised"}

(* C1: constructing DieDivider(sides, source) with positive sides raises   *)
(* the constructor's error exactly when source.sides mod sides # 0 and     *)
(* succeeds when source.sides is a multiple of sides; after the error no   *)
(* die exists: nothing is ever drawn or returned.                          *)
C1_DividerConstruction ==
    (kind = "Divider" /\ sides > 0 /\ pc # "new") =>
        IF srcSides % sides # 0
          THEN pc = "error" /\ result = <<>> /\ rolls = <<>> /\ srcNumRolls = 0
          ELSE Built

C1_Witness ==
    kind = "Divider" /\ sides = 4 /\ srcSides = 6 /\ pc = "error"

(* C2: for a DieDivider with sides >= 1 (so divisor = source.sides / sides *)
(* and divisor * sides = source.sides), every roll() draws exactly one     *)
(* value r in [1, source.sides] and returns the least v with               *)
(* v * divisor >= r, i.e. ceil(r / divisor), which lies in [1, sides].     *)
C2_DividerRollState ==
    (kind = "Divider" /\ sides >= 1 /\ result # <<>>) =>
        LET d == srcSides \div sides
            v == result[1]
        IN  /\ d * sides = srcSides
            /\ Len(rolls) = 1
            /\ rolls[1] \in 1..srcSides
            /\ v * d >= rolls[1]
            /\ (v - 1) * d < rolls[1]
            /\ v \in 1..sides

C2_DividerRollStep ==
    (kind = "Divider" /\ sides >= 1 /\ srcKind = "Perfect" /\ pc = "ready" /\ pc' = "ready") =>
        /\ srcNumRolls' = srcNumRolls + 1
        /\ rolls' = <<srcRolls[srcPos + 1]>>

C2_DividerRoll == []C2_DividerRollState /\ [][C2_DividerRollStep]_vars

C2_Witness ==
    /\ kind = "Divider" /\ sides = 2 /\ srcSides = 6 /\ srcKind = "Perfect"
    /\ rolls = <<4>> /\ result = <<2>> /\ srcNumRolls = 4 /\ pc = "ready"

(* C3: a DieDivider rolled exactly source.sides times over a fresh         *)
(* DiePerfect(source.sides) has returned every face 1..sides exactly       *)
(* source.sides / sides times.                                             *)
C3_DividerExact ==
    (/\ kind = "Divider" /\ srcKind = "Perfect" /\ srcNumDice = 1
     /\ sides >= 1 /\ pc = "ready" /\ srcNumRolls = srcSides) =>
        /\ TesterNumRolls = srcSides
        /\ \A f \in 1..sides : tally[f] = srcSides \div sides

C3_Witness ==
    /\ kind = "Divider" /\ srcKind = "Perfect" /\ srcNumDice = 1
    /\ sides = 3 /\ srcSides = 6 /\ srcNumRolls = 6 /\ pc = "ready"
    /\ tally = [f \in 1..3 |-> 2]

(* C4: a constructed DiePower or DieCombo has num_dice equal to the        *)
(* smallest n >= 0 with source.sides^n >= sides.                           *)
C4_NumDiceMinimal ==
    (kind \in {"Power", "Combo"} /\ Built) =>
        /\ pow(srcSides, num_dice) >= sides
        /\ num_dice > 0 => pow(srcSides, num_dice - 1) < sides
        /\ \A m \in 0..(num_dice - 1) : pow(srcSides, m) < sides

C4_Witness ==
    kind = "Combo" /\ sides = 5 /\ srcSides = 2 /\ num_dice = 3 /\ pc = "ready"

(* C5: every constructed DieCombo has divider * sides <= source.sides ^    *)
(* num_dice < (divider + 1) * sides, in every state reached by rolling     *)
(* (stated over the sources that can be rolled, source.sides >= 2).        *)
C5_DividerBracket ==
    (kind = "Combo" /\ srcSides >= 2 /\ Built) =>
        /\ divider * sides <= pow(srcSides, num_dice)
        /\ pow(srcSides, num_dice) < (divider + 1) * sides

(* C6: every value returned by DiePower.roll() or DieCombo.roll() lies in  *)
(* [1, sides], whatever batch of draws in [1, source.sides] was drawn; a   *)
(* rejected batch returns nothing.                                         *)
C6_RangeState ==
    (kind \in {"Power", "Combo"} /\ result # <<>>) =>
        /\ result[1] \in 1..sides
        /\ \A k \in 1..Len(rolls) : rolls[k] \in 1..srcSides

C6_RejectStep ==
    (kind \in {"Power", "Combo"} /\ pc' = "rolling") =>
        (result' = result /\ tally' = tally)

C6_RadixRange == []C6_RangeState /\ [][C6_RejectStep]_vars

C6_Witness ==
    /\ kind = "Power" /\ srcKind = "Random" /\ sides = 5 /\ srcSides = 3
    /\ result = <<5>> /\ pc = "rolling" /\ rolls = <<3, 3>>

(* C7: over a fresh DiePerfect(source.sides, num_dice) with the            *)
(* converter's num_dice, once DiePower has returned k * sides values every *)
(* face has come exactly k times, and once DieCombo has returned           *)
(* k * divider * sides values every face has come exactly k * divider      *)
(* times.                                                                  *)
C7_EnumerationExact ==
    (/\ kind \in {"Power", "Combo"} /\ srcKind = "Perfect" /\ srcNumDice = num_dice
     /\ sides >= 1 /\ pc = "ready"
     /\ TesterNumRolls % (IF kind = "Power" THEN sides ELSE divider * sides) = 0) =>
        \A f \in 1..sides : tally[f] * sides = TesterNumRolls

C7_Witness ==
    /\ kind = "Combo" /\ srcKind = "Perfect" /\ srcNumDice = 2 /\ num_dice = 2
    /\ sides = 4 /\ srcSides = 3 /\ divider = 2 /\ pc = "ready"
    /\ TesterNumRolls = 16 /\ tally = [f \in 1..4 |-> 4]

(* C8: expected source draws per accepted roll, num_dice * S^num_dice /    *)
(* accepted batches, compared between DieCombo and DiePower for the same   *)
(* (sides, source.sides), sides >= 1 and source.sides >= 2.                *)
AllBatches == [1..num_dice -> 1..srcSides]
PowerAccepted == Cardinality({b \in AllBatches : Accepts(PowerValue(b))})
ComboAccepted == Cardinality({b \in AllBatches : Accepts(ComboValue(b))})
DrawsPerCycle == num_dice * pow(srcSides, num_dice)
C8_Case == kind = "Combo" /\ pc = "ready" /\ sides >= 1 /\ srcSides >= 2

\* Combo's expectation <= Power's: a/x <= a/y iff a*y <= a*x for x, y > 0
C8_ComboNoWorse ==
    /\ PowerAccepted > 0 /\ ComboAccepted > 0
    /\ DrawsPerCycle * PowerAccepted <= DrawsPerCycle * ComboAccepted
C8_Equal == DrawsPerCycle * PowerAccepted = DrawsPerCycle * ComboAccepted

(* C8 as claimed: Combo <= Power, with equality only when                  *)
(* source.sides^num_dice mod sides = 0.                                    *)
C8_Original ==
    C8_Case =>
        /\ C8_ComboNoWorse
        /\ C8_Equal => pow(srcSides, num_dice) % sides = 0

(* C8 as amended: Combo <= Power, with equality exactly when               *)
(* source.sides^num_dice < 2 * sides, i.e. reroll_divisor = 1.             *)
C8_ComboReducesRetries ==
    C8_Case =>
        /\ C8_ComboNoWorse
        /\ C8_Equal <=> (pow(srcSides, num_dice) < 2 * sides)

C8_Witness ==
    /\ C8_Case /\ sides = 5 /\ srcSides = 3 /\ num_dice = 2
    /\ PowerAccepted = 5 /\ ComboAccepted = 5

(* C9: constructing DiePower or DieCombo over a source with                *)
(* source.sides < 2 fails; no die is returned (stated for the target side  *)
(* counts a die may have, sides >= 1).                                     *)
C9_DegenerateSourceRejected ==
    (kind \in {"Power", "Combo"} /\ srcSides < 2 /\ sides >= 1) =>
        pc \in {"new", "search", "error", "zerodiv"}

(* C10: constructing any converter with sides <= 0 fails; no die with      *)
(* sides <= 0 is returned and no roll() is issued on one (stated over the  *)
(* sources that can be rolled, source.sides >= 2).                         *)
C10_NonPositiveSidesRejected ==
    (sides <= 0 /\ srcSides >= 2) =>
        pc \in {"new", "search", "error", "zerodiv"}

(* C11: a constructed DiePower or DieCombo with sides >= 1 and             *)
(* source.sides >= 2 accepts at least one of the source.sides^num_dice     *)
(* batches; under a source that keeps producing every batch each roll()    *)
(* returns; over a fresh DiePerfect(source.sides, num_dice) each roll()    *)
(* returns within source.sides^num_dice attempts.                          *)
C11_Case == kind \in {"Power", "Combo"} /\ sides >= 1 /\ srcSides >= 2 /\ Built

C11_State ==
    C11_Case =>
        /\ (IF kind = "Power" THEN PowerAccepted ELSE ComboAccepted) > 0
        /\ (srcKind = "Perfect" /\ srcNumDice = num_dice) =>
              /\ attempts <= pow(srcSides, num_dice)
              /\ pc = "rolling" => attempts < pow(srcSides, num_dice)

C11_Returns ==
    (C11_Case /\ srcKind = "Random" /\ pc = "rolling") ~> (pc = "ready")

C11_Termination == []C11_State /\ C11_Returns

C11_Witness ==
    /\ kind = "Power" /\ srcKind = "Perfect" /\ srcNumDice = 2 /\ num_dice = 2
    /\ sides = 3 /\ srcSides = 2 /\ pc = "ready" /\ attempts = 2
    /\ TesterNumRolls = 4

(* C12: every attempt of DiePower.roll() and DieCombo.roll() draws exactly *)
(* num_dice values, rejected attempts included: a roll that has made       *)
(* j + 1 attempts has taken (j + 1) * num_dice draws, and between rolls    *)
(* the draws taken from the source are a multiple of num_dice.             *)
C12_DrawsPerAttempt ==
    (kind \in {"Power", "Combo"} /\ pc \in {"ready", "rolling"} /\ attempts >= 1) =>
        /\ Len(rolls) = num_dice
        /\ (srcKind = "Perfect" /\ attempts < MaxAttempts) =>
              srcNumRolls - callStart = attempts * num_dice
        /\ (srcKind = "Perfect" /\ pc = "ready") =>
              \E k \in 0..MaxDraws : srcNumRolls = k * num_dice

C12_Witness ==
    /\ kind = "Power" /\ srcKind = "Perfect" /\ srcNumDice = 2 /\ num_dice = 2
    /\ sides = 4 /\ srcSides = 3 /\ pc = "ready" /\ attempts = 3
    /\ callStart = 8 /\ srcNumRolls = 14 /\ result = <<3>>

(* C13: for sides >= 1 and num_dice >= 1 the i-th roll() (0-based) of a    *)
(* fresh DiePerfect(sides, num_dice) returns digit (i mod num_dice) of     *)
(* combination number (i div num_dice) mod sides^num_dice of               *)
(* {1..sides}^num_dice in lexicographic order, first die slowest; every    *)
(* roll adds exactly 1 to num_rolls.                                       *)
LexDigit(i, s, n) ==
    ((((i \div n) % pow(s, n)) \div pow(s, n - 1 - (i % n))) % s) + 1

C13_Case == srcKind = "Perfect" /\ srcSides >= 1 /\ srcNumDice >= 1

C13_State ==
    C13_Case =>
        /\ Len(srcRolls) = srcNumDice * pow(srcSides, srcNumDice)
        /\ \A i \in 0..(Len(srcRolls) - 1) :
              srcRolls[i + 1] = LexDigit(i, srcSides, srcNumDice)
        /\ srcPos = srcNumRolls % Len(srcRolls)
        /\ attempts >= 1 =>
              \A j \in 1..Len(rolls) :
                 rolls[j] = LexDigit(srcNumRolls - Len(rolls) + j - 1, srcSides, srcNumDice)

C13_Step ==
    (C13_Case /\ srcNumRolls' # srcNumRolls) =>
        srcNumRolls' = srcNumRolls + Len(rolls')

C13_EnumerationOrder == []C13_State /\ [][C13_Step]_vars

C13_Witness ==
    /\ kind = "Divider" /\ sides = 1 /\ srcKind = "Perfect"
    /\ srcSides = 2 /\ srcNumDice = 2
    /\ srcRolls = <<1, 1, 1, 2, 2, 1, 2, 2>>
    /\ srcNumRolls = 9 /\ srcPos = 1 /\ rolls = <<1>>

(* C14: over a fresh DiePerfect(S, n), n = num_dice >= 1, once DiePower    *)
(* has returned k * sides values (k >= 1) the batches consumed,            *)
(* num_rolls // n, are (k - 1) * S^n + p, with p the 1-based lexicographic *)
(* index of the last combination whose least-significant-first composite   *)
(* is <= sides.                                                            *)
LexComb(j, s, n) == [k \in 1..n |-> (((j - 1) \div pow(s, n - k)) % s) + 1]
LsbComposite(d, s) == 1 + SumSeq([k \in 1..Len(d) |-> pow(s, k - 1) * (d[k] - 1)])
LastAcceptedIndex ==
    CHOOSE p \in 1..pow(srcSides, num_dice) :
        /\ LsbComposite(LexComb(p, srcSides, num_dice), srcSides) <= sides
        /\ \A q \in (p + 1)..pow(srcSides, num_dice) :
              LsbComposite(LexComb(q, srcSides, num_dice), srcSides) > sides

C14_PowerDrawCost ==
    (/\ kind = "Power" /\ srcKind = "Perfect" /\ srcNumDice = num_dice
     /\ num_dice >= 1 /\ sides >= 1 /\ pc = "ready"
     /\ TesterNumRolls > 0 /\ TesterNumRolls % sides = 0) =>
        srcNumRolls \div num_dice =
            ((TesterNumRolls \div sides) - 1) * pow(srcSides, num_dice) + LastAcceptedIndex

C14_Witness ==
    /\ kind = "Power" /\ srcKind = "Perfect" /\ srcNumDice = 2 /\ num_dice = 2
    /\ sides = 4 /\ srcSides = 3 /\ pc = "ready"
    /\ TesterNumRolls = 8 /\ srcNumRolls = 32

(* C15: over a fresh DiePerfect(S, n), n = num_dice >= 1, once DieCombo    *)
(* has returned k * reroll_divisor * sides values (k >= 1) the batches     *)
(* consumed are (k - 1) * S^n + reroll_divisor * sides, with               *)
(* reroll_divisor = floor(S^n / sides).                                    *)
AcceptedPerCycle == (pow(srcSides, num_dice) \div sides) * sides

C15_ComboDrawCost ==
    (/\ kind = "Combo" /\ srcKind = "Perfect" /\ srcNumDice = num_dice
     /\ num_dice >= 1 /\ sides >= 1 /\ pc = "ready"
     /\ TesterNumRolls > 0 /\ TesterNumRolls % AcceptedPerCycle = 0) =>
        srcNumRolls \div num_dice =
            ((TesterNumRolls \div AcceptedPerCycle) - 1) * pow(srcSides, num_dice)
                + AcceptedPerCycle

C15_Witness ==
    /\ kind = "Combo" /\ srcKind = "Perfect" /\ srcNumDice = 2 /\ num_dice = 2
    /\ sides = 4 /\ srcSides = 3 /\ divider = 2 /\ pc = "ready"
    /\ TesterNumRolls = 16 /\ srcNumRolls = 34

(* C16: roll() never changes the sides, the source, num_dice or the        *)
(* divider of the die it is called on, nor the sides, num_dice or the      *)
(* enumeration list of its source; only the source's draw counter and      *)
(* cycle position move.                                                    *)
C16_RollStep ==
    (Built /\ pc' \in {"ready", "rolling", "raised"}) =>
        /\ UNCHANGED <<kind, sides, num_dice, divider>>
        /\ UNCHANGED <<srcKind, srcSides, srcNumDice, srcRolls>>
        /\ srcKind = "Random" => UNCHANGED <<srcNumRolls, srcPos>>

C16_RollFrame == [][C16_RollStep]_vars

C16_Witness ==
    /\ kind = "Combo" /\ srcKind = "Perfect" /\ srcNumDice = 2 /\ num_dice = 2
    /\ sides = 4 /\ srcSides = 3 /\ divider = 2
    /\ pc = "rolling" /\ srcNumRolls = 18 /\ srcPos = 0 /\ TesterNumRolls = 8

(* C17: of the source.sides^num_dice batches DieCombo rejects exactly      *)
(* source.sides^num_dice mod sides, those whose most-significant-first     *)
(* raw composite is >= reroll_divisor * sides, and maps reroll_divisor     *)
(* batches to every face; DiePower rejects source.sides^num_dice - sides;  *)
(* DieCombo never rejects more than DiePower (sides >= 1).                 *)
C17_Case == kind = "Combo" /\ pc = "ready" /\ sides >= 1

C17_RejectedRegion ==
    C17_Case =>
        LET total == pow(srcSides, num_dice)
            rd == total \div sides
            comboRejected == {b \in AllBatches : ~Accepts(ComboValue(b))}
            powerRejected == {b \in AllBatches : ~Accepts(PowerValue(b))}
        IN  /\ Cardinality(AllBatches) = total
            /\ Cardinality(comboRejected) = total % sides
            /\ comboRejected = {b \in AllBatches : ComboRaw(b) >= rd * sides}
            /\ \A f \in 1..sides :
                  Cardinality({b \in AllBatches : ComboValue(b) = f}) = rd
            /\ Cardinality(powerRejected) = total - sides
            /\ Cardinality(comboRejected) <= Cardinality(powerRejected)

C17_Witness ==
    /\ C17_Case /\ sides = 4 /\ srcSides = 3 /\ num_dice = 2 /\ divider = 2
    /\ ComboAccepted = 8 /\ PowerAccepted = 4

(* C18: for a batch of num_dice draws in [1, S] the least-significant-     *)
(* first composite of DiePower and the most-significant-first composite    *)
(* of DieCombo each map {1..S}^num_dice one-to-one onto [1, S^num_dice],   *)
(* and each is the other applied to the reversed batch.                    *)
Reverse(b) == [k \in 1..Len(b) |-> b[Len(b) + 1 - k]]

C18_Case == kind \in {"Power", "Combo"} /\ Built

C18_RadixBijection ==
    C18_Case =>
        LET total == pow(srcSides, num_dice)
        IN  /\ Cardinality(AllBatches) = total
            /\ {PowerValue(b) : b \in AllBatches} = 1..total
            /\ {ComboRaw(b) + 1 : b \in AllBatches} = 1..total
            /\ \A b \in AllBatches :
                  /\ Reverse(b) \in AllBatches
                  /\ ComboRaw(b) + 1 = PowerValue(Reverse(b))

C18_Witness ==
    /\ kind = "Power" /\ pc = "ready" /\ sides = 5 /\ srcSides = 2 /\ num_dice = 3
    /\ Cardinality(AllBatches) = 8

(* C19: the loop of roll() has one state: an iteration either rejects and  *)
(* loops or accepts and returns, the decision and the returned value are   *)
(* a function of the batch just drawn alone (so equal converters fed equal *)
(* draws return equal values after equal numbers of draws), and nothing    *)
(* of the converter changes across iterations or calls.                    *)
MsbRaw(d, s) == SumSeq([k \in 1..Len(d) |-> pow(s, Len(d) - k) * (d[k] - 1)])
BatchValue(d) ==
    IF kind = "Power" THEN LsbComposite(d, srcSides)
    ELSE FloorDiv(MsbRaw(d, srcSides), FloorDiv(pow(srcSides, Len(d)), sides)) + 1

C19_State ==
    (kind \in {"Power", "Combo"} /\ pc \in {"ready", "rolling"} /\ attempts >= 1) =>
        /\ pc = "rolling" => BatchValue(rolls) > sides
        /\ pc = "ready" => (BatchValue(rolls) <= sides /\ result = <<BatchValue(rolls)>>)

C19_Step ==
    (kind \in {"Power", "Combo"} /\ pc \in {"ready", "rolling"} /\ sides >= 1) =>
        /\ pc' \in {"ready", "rolling"} \/ (attempts = 0 /\ pc' = "raised")
        /\ UNCHANGED <<num_dice, divider>>

C19_SingleStateLoop == []C19_State /\ [][C19_Step]_vars

C19_Witness ==
    /\ kind = "Combo" /\ srcKind = "Random" /\ sides = 4 /\ srcSides = 3
    /\ pc = "ready" /\ attempts = 3 /\ rolls = <<1, 3>> /\ result = <<2>>

(* C20: DiePower(1, source) and DieCombo(1, source) have num_dice = 0 for  *)
(* every source, and every roll() returns 1 on its first attempt without   *)
(* drawing from the source.                                                *)
C20_OneSidedDie ==
    (kind \in {"Power", "Combo"} /\ sides = 1 /\ Built) =>
        /\ num_dice = 0
        /\ pc = "ready"
        /\ srcNumRolls = 0 /\ srcPos = 0
        /\ attempts >= 1 => (attempts = 1 /\ rolls = <<>> /\ result = <<1>>)

C20_Witness ==
    /\ kind = "Combo" /\ sides = 1 /\ srcSides = 1 /\ srcKind = "Perfect"
    /\ srcNumDice = 2 /\ pc = "ready" /\ result = <<1>>
    /\ TesterNumRolls = 3 /\ srcNumRolls = 0

====
